---- MODULE Spec2Model ----
(***************************************************************************)
(* StandardRunService (libs/services/designer-client-services, run.ts):    *)
(* a client of the workflow run-history REST API over an injected HTTP     *)
(* transport.  One service instance is constructed and then serves one     *)
(* invocation at a time; the transport settles each request it is handed   *)
(* by resolving with a body or rejecting with an error.                    *)
(*                                                                         *)
(* JavaScript values that may be undefined, null or of several types are   *)
(* tagged records [t |-> type, v |-> value]; strings are TLA+ strings, and *)
(* template literals are built with \o.  An HTTP method name is carried as *)
(* its sequence of characters, so that toLowerCase is computed.            *)
(***************************************************************************)
EXTENDS Integers, Sequences, FiniteSets, TLC

VARIABLES
    ctor,       \* "none" | "ok" | "threw": the outcome of new StandardRunService
    options,    \* this.options
    _isDev,     \* this._isDev
    ctorError,  \* the exception the constructor threw
    pc,         \* "idle" | "await" | "returned" | "threw": the invocation's position
    op,         \* the invocation: [name |-> method, args |-> its arguments]
    calls,      \* the transport calls the invocation has issued, in order
    replies,    \* how the transport settled them, in order
    outcome,    \* the value the invocation returned, or the error it threw
    outputs,    \* getActionLinks' local `outputs`
    pag         \* the paginating caller: pages served, runs accumulated

vars == <<ctor, options, _isDev, ctorError, pc, op, calls, replies, outcome, outputs, pag>>

----------------------------------------------------------------------------
(* JavaScript values *)

Undefined == [t |-> "undefined"]
Null == [t |-> "null"]
Str(s) == [t |-> "string", v |-> s]
Bool(b) == [t |-> "boolean", v |-> b]
Num(n) == [t |-> "number", v |-> n]
Obj(f) == [t |-> "object", v |-> f]

\* The empty object {}.
EmptyObj == Obj(<< >>)

\* ToBoolean: what `!x`, `x || y` and `if (x)` test.
Truthy(x) ==
    CASE x.t \in {"undefined", "null"} -> FALSE
      [] x.t = "string" -> x.v # ""
      [] x.t = "boolean" -> x.v
      [] x.t = "number" -> x.v # 0
      [] OTHER -> TRUE

\* x || y
OrElse(x, y) == IF Truthy(x) THEN x ELSE y

\* x ?? y
Coalesce(x, y) == IF x.t \in {"undefined", "null"} THEN y ELSE x

Digit == <<"0", "1", "2", "3", "4", "5", "6", "7", "8", "9">>

RECURSIVE NatToString(_)
NatToString(n) ==
    IF n < 10 THEN Digit[n + 1] ELSE NatToString(n \div 10) \o Digit[(n % 10) + 1]

\* ToString, as a template literal `${x}` applies it.
TemplateString(x) ==
    CASE x.t = "undefined" -> "undefined"
      [] x.t = "null" -> "null"
      [] x.t = "string" -> x.v
      [] x.t = "boolean" -> IF x.v THEN "true" ELSE "false"
      [] x.t = "number" -> NatToString(x.v)
      [] OTHER -> "[object Object]"

\* new Error(message): an error with a message and no other field.
\* new Error() and new Error(undefined) have the message "".
NewError(message) ==
    [name |-> "Error",
     message |-> Str(IF message = Undefined THEN "" ELSE TemplateString(message))]

ArgumentException(message) == [name |-> "ArgumentException", message |-> Str(message)]

UnsupportedException(message) == [name |-> "UnsupportedException", message |-> Str(message)]

None == [t |-> "none"]

\* e.message, e.status, e.data: a property read, undefined when absent.
Get(o, field) == IF field \in DOMAIN o THEN o[field] ELSE Undefined

\* What a method does next: throw, return, or await a transport call.
Throw(e) == [kind |-> "throw", error |-> e]
Return(v) == [kind |-> "return", value |-> v]
AwaitAt(position, request) == [kind |-> "await", at |-> position, request |-> request]
Await(request) == AwaitAt("await", request)

----------------------------------------------------------------------------
(* The constructor and the helpers of the class *)

\* A constructor that forgets the apiVersion check.
constructorWithoutApiVersionCheck(opts) ==
    IF ~Truthy(opts.baseUrl) THEN Throw(ArgumentException("baseUrl required"))
    ELSE Return(OrElse(opts.isDev, Bool(FALSE)))

\* constructor(options): throws, or sets this._isDev.
constructor(opts) ==
    IF ~Truthy(opts.baseUrl) THEN Throw(ArgumentException("baseUrl required"))
    ELSE IF ~Truthy(opts.apiVersion) THEN Throw(ArgumentException("apiVersion required"))
    ELSE Return(OrElse(opts.isDev, Bool(FALSE)))

getAccessTokenHeaders ==
    IF ~Truthy(options.accessToken) THEN Undefined
    ELSE Obj([Authorization |-> options.accessToken])

\* A catch block that rethrows the transport's error as it is.
RethrowOriginal(e) == Throw(e)

\* catch (e: any) { throw new Error(e.message); }
Rethrow(e) == Throw(NewError(Get(e, "message")))

\* const { nextLink, value: runs } = response; return { nextLink, runs };
Envelope(response) == [nextLink |-> response.nextLink, runs |-> response.value]

----------------------------------------------------------------------------
(* Strings as character sequences: String.prototype.toLowerCase *)

UpperCase == <<"A", "B", "C", "D", "E", "F", "G", "H", "I", "J", "K", "L", "M",
               "N", "O", "P", "Q", "R", "S", "T", "U", "V", "W", "X", "Y", "Z">>
LowerCase == <<"a", "b", "c", "d", "e", "f", "g", "h", "i", "j", "k", "l", "m",
               "n", "o", "p", "q", "r", "s", "t", "u", "v", "w", "x", "y", "z">>

toLowerCaseChar(c) ==
    IF \E i \in 1..Len(UpperCase) : UpperCase[i] = c
    THEN LowerCase[CHOOSE i \in 1..Len(UpperCase) : UpperCase[i] = c]
    ELSE c

\* A dispatch that forgets to lower-case the method.
toLowerCaseForgotten(chars) == chars

toLowerCase(chars) == [i \in 1..Len(chars) |-> toLowerCaseChar(chars[i])]

\* The string a character sequence spells.
RECURSIVE Join(_)
Join(chars) == IF chars = << >> THEN "" ELSE Head(chars) \o Join(Tail(chars))

\* A dispatch whose exception names the lower-cased method.
getHttpRequestByMethodNamingLowerCase(method, opts) ==
    LET m == toLowerCase(method) IN
    CASE m = <<"g", "e", "t">> -> Await([verb |-> "get", options |-> opts])
      [] m = <<"p", "o", "s", "t">> -> Await([verb |-> "post", options |-> opts])
      [] m = <<"p", "u", "t">> -> Await([verb |-> "put", options |-> opts])
      [] OTHER ->
            Throw(UnsupportedException(
                "Unsupported call connector method - '" \o Join(m) \o "'"))

\* getHttpRequestByMethod(httpClient, method, options): the transport call it
\* hands back, or the exception it throws.
getHttpRequestByMethod(method, opts) ==
    LET m == toLowerCase(method) IN
    CASE m = <<"g", "e", "t">> -> Await([verb |-> "get", options |-> opts])
      [] m = <<"p", "o", "s", "t">> -> Await([verb |-> "post", options |-> opts])
      [] m = <<"p", "u", "t">> -> Await([verb |-> "put", options |-> opts])
      [] OTHER ->
            Throw(UnsupportedException(
                "Unsupported call connector method - '" \o Join(method) \o "'"))

----------------------------------------------------------------------------
(* parseActionLink *)

isString(value) == value.t = "string"

\* Object.keys(dictionaryResponse).reduce((prev, current) => ({ ...prev,
\*   [current]: { displayName: current, value: dictionaryResponse[current] } }), {})
RECURSIVE ReduceKeys(_, _, _)
ReduceKeys(keys, dict, prev) ==
    IF keys = {} THEN prev
    ELSE LET current == CHOOSE k \in keys : TRUE
         IN ReduceKeys(keys \ {current}, dict,
                [k \in DOMAIN prev \cup {current} |->
                    IF k = current
                    THEN Obj([displayName |-> Str(current), value |-> dict[current]])
                    ELSE prev[k]])

\* A parseActionLink that wraps a string under "Inputs" whatever isInput is.
parseActionLinkAlwaysInputs(response, isInput) ==
    IF ~Truthy(response) THEN response
    ELSE LET dictionaryResponse ==
                 IF isString(response) THEN "Inputs" :> response ELSE response.v
         IN Obj(ReduceKeys(DOMAIN dictionaryResponse, dictionaryResponse, << >>))

parseActionLink(response, isInput) ==
    IF ~Truthy(response) THEN response
    ELSE LET dictionaryResponse ==
                 IF isString(response)
                 THEN (IF isInput THEN "Inputs" ELSE "Outputs") :> response
                 ELSE response.v
         IN Obj(ReduceKeys(DOMAIN dictionaryResponse, dictionaryResponse, << >>))

\* The fixture payloads of dev mode, keyed by node id.
inputsResponse ==
    [Http |-> Obj([method |-> Str("GET"), uri |-> Str("https://example.test")]),
     Compose |-> Str("hello")]

outputsResponse ==
    [Http |-> Obj([statusCode |-> Num(200)]),
     Compose |-> Str("hello")]

\* table[key]
Index(table, key) == IF key \in DOMAIN table THEN table[key] ELSE Undefined

----------------------------------------------------------------------------
(* Callback descriptors *)

HTTP_METHODS_POST == <<"P", "O", "S", "T">>

isCallbackInfoWithRelativePath(callbackInfo) ==
    "relativePath" \in DOMAIN callbackInfo /\ callbackInfo.relativePath.t = "string"

\* A getCallbackUrl that joins the descriptor's paths in a template literal.
getCallbackUrlJoiningPaths(callbackInfo) ==
    IF Truthy(Get(callbackInfo, "value")) THEN Return(Get(callbackInfo, "value"))
    ELSE Return(Str(TemplateString(Get(callbackInfo, "basePath"))
                    \o TemplateString(Get(callbackInfo, "relativePath"))))

\* function getCallbackUrl(_callbackInfo): any { throw new Error('Function not implemented.'); }
getCallbackUrl(callbackInfo) == Throw(NewError(Str("Function not implemented.")))

----------------------------------------------------------------------------
(* The methods: each up to its first await, then its continuations *)

getContent(contentLink) ==
    LET uri == Get(contentLink, "uri") IN
    IF ~Truthy(uri) THEN Throw(NewError(Undefined))
    ELSE Await([verb |-> "get",
                options |-> [uri |-> uri, noAuth |-> TRUE,
                             headers |-> Obj("Access-Control-Allow-Origin" :> Str("*"))]])

\* A getMoreRuns that appends the api-version to the continuation link.
getMoreRunsAddingApiVersion(continuationToken) ==
    Await([verb |-> "get",
           options |-> [uri |-> Str(TemplateString(continuationToken) \o "&api-version="
                                     \o TemplateString(options.apiVersion)),
                        headers |-> getAccessTokenHeaders]])

getMoreRuns(continuationToken) ==
    Await([verb |-> "get",
           options |-> [uri |-> continuationToken, headers |-> getAccessTokenHeaders]])

getRun(runId) ==
    Await([verb |-> "get",
           options |-> [uri |-> Str(TemplateString(options.baseUrl) \o "/workflows/"
                                     \o options.workflowName \o "/runs/" \o runId
                                     \o "?api-version=" \o TemplateString(options.apiVersion)
                                     \o "&$expand=properties/actions,workflow/properties")]])

getRuns ==
    Await([verb |-> "get",
           options |-> [uri |-> Str(TemplateString(options.baseUrl) \o "/workflows/"
                                     \o options.workflowName
                                     \o "/runs?api-version=" \o TemplateString(options.apiVersion)),
                        headers |-> getAccessTokenHeaders]])

\* A getScopeRepetitions without the dev-mode short cut.
getScopeRepetitionsAlwaysLive(action, status) ==
    LET filter == IF Truthy(status)
                  THEN "&$filter=status eq '" \o TemplateString(status) \o "'"
                  ELSE ""
    IN Await([verb |-> "get",
              options |-> [uri |-> Str(TemplateString(options.baseUrl)
                                        \o TemplateString(action.runId) \o "/actions/"
                                        \o action.nodeId
                                        \o "/scopeRepetitions?api-version="
                                        \o TemplateString(options.apiVersion) \o filter),
                           headers |-> getAccessTokenHeaders]])

getScopeRepetitions(action, status) ==
    IF _isDev THEN Return(Obj([value |-> << >>]))
    ELSE LET filter == IF Truthy(status)
                       THEN "&$filter=status eq '" \o TemplateString(status) \o "'"
                       ELSE ""
         IN Await([verb |-> "get",
                   options |-> [uri |-> Str(TemplateString(options.baseUrl)
                                             \o TemplateString(action.runId) \o "/actions/"
                                             \o action.nodeId
                                             \o "/scopeRepetitions?api-version="
                                             \o TemplateString(options.apiVersion) \o filter),
                                headers |-> getAccessTokenHeaders]])

getRepetition(action, repetitionId) ==
    Await([verb |-> "get",
           options |-> [uri |-> Str(TemplateString(options.baseUrl)
                                     \o TemplateString(action.runId) \o "/actions/"
                                     \o action.nodeId \o "/repetitions/" \o repetitionId
                                     \o "?api-version=" \o TemplateString(options.apiVersion)),
                        headers |-> getAccessTokenHeaders]])

\* `${e.status} ${e?.data?.error?.message}`
TriggerErrorMessage(e) ==
    LET data == Get(e, "data")
        error == IF data.t = "object" THEN Get(data.v, "error") ELSE Undefined
        message == IF error.t = "object" THEN Get(error.v, "message") ELSE Undefined
    IN TemplateString(Get(e, "status")) \o " " \o TemplateString(message)

runTrigger(callbackInfo) ==
    LET method == IF isCallbackInfoWithRelativePath(callbackInfo)
                  THEN callbackInfo.method ELSE HTTP_METHODS_POST
        url == getCallbackUrl(callbackInfo)
    IN IF url.kind = "throw" THEN url
       ELSE IF ~Truthy(url.value) THEN Throw(NewError(Undefined))
       ELSE LET request == getHttpRequestByMethod(method, [uri |-> url.value])
            IN IF request.kind = "throw"
               THEN Throw(NewError(Str(TriggerErrorMessage(request.error))))
               ELSE request

\* actionMetadata ?? {}, then its inputsLink / outputsLink
Link(actionMetadata, side) ==
    IF actionMetadata.t = "object" THEN Get(actionMetadata.v, side) ELSE Undefined

\* link && link.uri
HasUri(link) == Truthy(link) /\ Truthy(Get(link.v, "uri"))

ActionLinks(inputs, outs) ==
    Obj([inputs |-> parseActionLink(inputs, TRUE), outputs |-> parseActionLink(outs, FALSE)])

\* A getActionLinks whose dev-mode branch comes after the fetches.
getActionLinksFetchingInDev(actionMetadata, nodeId) ==
    LET inputsLink == Link(actionMetadata, "inputsLink")
        outputsLink == Link(actionMetadata, "outputsLink")
    IN IF HasUri(outputsLink)
       THEN AwaitAt("await_outputs", getContent(outputsLink.v).request)
       ELSE IF HasUri(inputsLink)
       THEN AwaitAt("await_inputs", getContent(inputsLink.v).request)
       ELSE IF _isDev
       THEN Return(ActionLinks(Coalesce(Index(inputsResponse, nodeId), EmptyObj),
                               Coalesce(Index(outputsResponse, nodeId), EmptyObj)))
       ELSE Return(ActionLinks(EmptyObj, EmptyObj))

\* A getActionLinks that fetches the inputs before the outputs.
getActionLinksInputsFirst(actionMetadata, nodeId) ==
    LET inputsLink == Link(actionMetadata, "inputsLink")
        outputsLink == Link(actionMetadata, "outputsLink")
    IN IF _isDev
       THEN Return(ActionLinks(Coalesce(Index(inputsResponse, nodeId), EmptyObj),
                               Coalesce(Index(outputsResponse, nodeId), EmptyObj)))
       ELSE IF HasUri(inputsLink)
            THEN AwaitAt("await_inputs", getContent(inputsLink.v).request)
       ELSE IF HasUri(outputsLink)
            THEN AwaitAt("await_outputs", getContent(outputsLink.v).request)
       ELSE Return(ActionLinks(EmptyObj, EmptyObj))

getActionLinks(actionMetadata, nodeId) ==
    LET inputsLink == Link(actionMetadata, "inputsLink")
        outputsLink == Link(actionMetadata, "outputsLink")
    IN IF _isDev
       THEN Return(ActionLinks(Coalesce(Index(inputsResponse, nodeId), EmptyObj),
                               Coalesce(Index(outputsResponse, nodeId), EmptyObj)))
       ELSE IF HasUri(outputsLink)
            THEN AwaitAt("await_outputs", getContent(outputsLink.v).request)
       ELSE IF HasUri(inputsLink)
            THEN AwaitAt("await_inputs", getContent(inputsLink.v).request)
       ELSE Return(ActionLinks(EmptyObj, EmptyObj))

\* getActionLinks once `outputs = await this.getContent(outputsLink)` has a value.
getActionLinksAfterOutputs(actionMetadata, outs) ==
    LET inputsLink == Link(actionMetadata, "inputsLink")
    IN IF HasUri(inputsLink)
       THEN AwaitAt("await_inputs", getContent(inputsLink.v).request)
       ELSE Return(ActionLinks(EmptyObj, outs))

\* The invocation's continuation when the awaited transport call resolves.
Then(response) ==
    CASE op.name \in {"getRuns", "getMoreRuns"} -> Return(Envelope(response))
      [] op.name = "runTrigger" -> Return(Undefined)
      [] op.name = "getActionLinks" /\ pc = "await_outputs" ->
            getActionLinksAfterOutputs(op.args.actionMetadata, response)
      [] op.name = "getActionLinks" /\ pc = "await_inputs" ->
            Return(ActionLinks(response, outputs))
      [] OTHER -> Return(response)

\* A catch block that issues the failed call once more.
CatchRetrying(e) == AwaitAt(pc, calls[Len(calls)])

\* A getActionLinks that swallows a failed outputs fetch and goes on.
CatchSwallowingOutputsFailure(e) ==
    CASE op.name = "runTrigger" -> Throw(NewError(Str(TriggerErrorMessage(e))))
      [] op.name = "getHttpRequestByMethod" -> Throw(e)
      [] op.name = "getActionLinks" /\ pc = "await_outputs" ->
            getActionLinksAfterOutputs(op.args.actionMetadata, EmptyObj)
      [] OTHER -> Rethrow(e)

\* The invocation's continuation when the awaited transport call rejects.
Catch(e) ==
    CASE op.name = "runTrigger" -> Throw(NewError(Str(TriggerErrorMessage(e))))
      [] op.name = "getHttpRequestByMethod" -> Throw(e)
      [] OTHER -> Rethrow(e)

----------------------------------------------------------------------------
(* The inputs and the transport's answers *)

\* A paginating caller is served at most this many pages.
MaxPages == 3

OptionsSet ==
    [apiVersion : {Undefined, Str(""), Str("2018-11-01")},
     baseUrl : {Undefined, Str(""), Str("https://host/api")},
     accessToken : {Undefined, Str("Bearer token")},
     workflowName : {"wf"},
     isDev : {Undefined, Bool(TRUE), Bool(FALSE)}]

NodeIds == {"Http", "Compose", "Scope"}
RunIds == {Undefined, Str("/workflows/wf/runs/r1")}
Actions == [nodeId : NodeIds, runId : RunIds]
Statuses == {Undefined, Str("Succeeded")}

ContentLinks ==
    {<< >>, [uri |-> Undefined], [uri |-> Str("")],
     [uri |-> Str("https://blob/inputs")], [uri |-> Str("https://blob/outputs")]}

OptionalLinks == {Undefined} \cup {Obj(l) : l \in ContentLinks \ {<< >>}}

ActionMetadatas ==
    {Undefined}
        \cup {Obj([inputsLink |-> i, outputsLink |-> o]) : i \in OptionalLinks, o \in OptionalLinks}

\* What a content link, or any endpoint, may hold.
Payloads ==
    {Undefined, Null, Str(""), Str("hello"), EmptyObj,
     Obj([a |-> Num(1), b |-> Num(2)])}

\* Every casing of a lower-case word.
Casings(word) ==
    {[i \in 1..Len(word) |->
        IF i \in S
        THEN UpperCase[CHOOSE j \in 1..Len(LowerCase) : LowerCase[j] = word[i]]
        ELSE word[i]] : S \in SUBSET (1..Len(word))}

Methods ==
    Casings(<<"g", "e", "t">>) \cup Casings(<<"p", "o", "s", "t">>)
        \cup Casings(<<"p", "u", "t">>)
        \cup {<<"D", "E", "L", "E", "T", "E">>, <<"d", "e", "l", "e", "t", "e">>,
              <<"D", "e", "l", "e", "t", "e">>, <<"P", "A", "T", "C", "H">>,
              << >>, <<"g", "e">>, <<"g", "e", "t", "s">>, <<"G", "E", "T", " ">>}

RequestOptions == {[uri |-> Str("https://host/api/callback")]}

CallbackInfos ==
    {<< >>, [value |-> Undefined], [value |-> Str("")],
     [value |-> Str("https://host/api/callback")],
     [method |-> <<"G", "E", "T">>, relativePath |-> Str("/triggers/manual/invoke"),
      basePath |-> Str("https://host/api")],
     [method |-> <<"D", "E", "L", "E", "T", "E">>, relativePath |-> Str("/triggers/manual/invoke"),
      basePath |-> Str("https://host/api")]}

Runs == {<< >>, <<"r1">>, <<"r2", "r1">>}
NextLinks == {Undefined, Str(""), Str("https://host/api/runs?skip=1"),
              Str("https://host/api/runs?skip=2")}
RunPages == [value : Runs, nextLink : NextLinks]

\* The errors the transport rejects with.
TransportErrors ==
    {[name |-> "HttpError", message |-> Str("Request failed with status code 404"),
      status |-> Num(404),
      data |-> Obj([error |-> Obj([message |-> Str("The workflow run was not found.")])])],
     [name |-> "HttpError", message |-> Str("Network Error")]}

\* The bodies the transport may resolve the awaited call with.
Bodies ==
    CASE op.name \in {"getRuns", "getMoreRuns"} ->
            IF pag.state = "running" /\ Len(pag.served) + 1 >= MaxPages
            THEN {p \in RunPages : ~Truthy(p.nextLink)}
            ELSE RunPages
      [] op.name = "getRun" -> {Obj([id |-> Str("r1")])}
      [] op.name = "getScopeRepetitions" ->
            {Obj([value |-> << >>]), Obj([value |-> <<Str("000000")>>])}
      [] op.name = "getRepetition" -> {Obj([name |-> Str("000000")])}
      [] OTHER -> Payloads

----------------------------------------------------------------------------
(* The state machine *)

NoPag == [state |-> "none", acc |-> << >>, served |-> << >>]

Init ==
    /\ ctor = "none"
    /\ options = None
    /\ _isDev = FALSE
    /\ ctorError = None
    /\ pc = "idle"
    /\ op = None
    /\ calls = << >>
    /\ replies = << >>
    /\ outcome = None
    /\ outputs = EmptyObj
    /\ pag = NoPag

Awaiting == pc \in {"await", "await_outputs", "await_inputs"}

\* The invocation moves as `step` says, having issued `issued` so far.
Take(step, issued) ==
    /\ pc' = CASE step.kind = "await" -> step.at
                [] step.kind = "return" -> "returned"
                [] OTHER -> "threw"
    /\ calls' = IF step.kind = "await" THEN Append(issued, step.request) ELSE issued
    /\ outcome' = CASE step.kind = "await" -> None
                     [] step.kind = "return" -> step.value
                     [] OTHER -> step.error

\* A method is invoked on the constructed service.
Invoke(name, args, step) ==
    /\ ctor = "ok"
    /\ pc = "idle"
    /\ op' = [name |-> name, args |-> args]
    /\ Take(step, << >>)
    /\ replies' = << >>
    /\ outputs' = EmptyObj
    /\ UNCHANGED <<ctor, options, _isDev, ctorError>>

\* new StandardRunService(options)
New(opts) ==
    /\ ctor = "none"
    /\ LET result == constructor(opts)
       IN /\ options' = opts
          /\ ctor' = IF result.kind = "throw" THEN "threw" ELSE "ok"
          /\ ctorError' = IF result.kind = "throw" THEN result.error ELSE None
          /\ _isDev' = IF result.kind = "throw" THEN _isDev ELSE result.value.v
    /\ UNCHANGED <<pc, op, calls, replies, outcome, outputs, pag>>

GetContent(contentLink) ==
    /\ Invoke("getContent", [contentLink |-> contentLink], getContent(contentLink))
    /\ pag' = NoPag

GetMoreRuns(continuationToken) ==
    /\ Invoke("getMoreRuns", [continuationToken |-> continuationToken],
              getMoreRuns(continuationToken))
    /\ pag' = NoPag

GetRun(runId) ==
    /\ Invoke("getRun", [runId |-> runId], getRun(runId))
    /\ pag' = NoPag

GetRuns ==
    /\ Invoke("getRuns", << >>, getRuns)
    /\ pag' = NoPag

GetScopeRepetitions(action, status) ==
    /\ Invoke("getScopeRepetitions", [action |-> action, status |-> status],
              getScopeRepetitions(action, status))
    /\ pag' = NoPag

GetRepetition(action, repetitionId) ==
    /\ Invoke("getRepetition", [action |-> action, repetitionId |-> repetitionId],
              getRepetition(action, repetitionId))
    /\ pag' = NoPag

RunTrigger(callbackInfo) ==
    /\ Invoke("runTrigger", [callbackInfo |-> callbackInfo], runTrigger(callbackInfo))
    /\ pag' = NoPag

GetActionLinks(actionMetadata, nodeId) ==
    /\ Invoke("getActionLinks", [actionMetadata |-> actionMetadata, nodeId |-> nodeId],
              getActionLinks(actionMetadata, nodeId))
    /\ pag' = NoPag

ParseActionLink(response, isInput) ==
    /\ Invoke("parseActionLink", [response |-> response, isInput |-> isInput],
              Return(parseActionLink(response, isInput)))
    /\ pag' = NoPag

GetHttpRequestByMethod(method, opts) ==
    /\ Invoke("getHttpRequestByMethod", [method |-> method, options |-> opts],
              getHttpRequestByMethod(method, opts))
    /\ pag' = NoPag

\* The transport resolves the awaited call with a body.
TransportResolve(body) ==
    /\ Awaiting
    /\ replies' = Append(replies, [ok |-> TRUE, body |-> body])
    /\ Take(Then(body), calls)
    /\ outputs' = IF pc = "await_outputs" THEN body ELSE outputs
    /\ pag' = IF pag.state = "running"
              THEN [pag EXCEPT !.served =
                        Append(@, [uri |-> calls[Len(calls)].options.uri, body |-> body])]
              ELSE pag
    /\ UNCHANGED <<ctor, options, _isDev, ctorError, op>>

\* The transport rejects the awaited call with an error.
TransportReject(e) ==
    /\ Awaiting
    /\ replies' = Append(replies, [ok |-> FALSE, error |-> e])
    /\ Take(Catch(e), calls)
    /\ UNCHANGED <<ctor, options, _isDev, ctorError, op, outputs, pag>>

\* The paginating caller: page = await getRuns(), and then, while page.nextLink,
\* page = await getMoreRuns(page.nextLink); the pages' runs are concatenated.
Paginate ==
    /\ Invoke("getRuns", << >>, getRuns)
    /\ pag' = [state |-> "running", acc |-> << >>, served |-> << >>]

NextPage ==
    /\ pag.state = "running"
    /\ pc \in {"returned", "threw"}
    /\ IF pc = "threw"
       THEN /\ pag' = [pag EXCEPT !.state = "failed"]
            /\ UNCHANGED <<pc, op, calls, replies, outcome>>
       ELSE IF Truthy(outcome.nextLink)
       THEN /\ pag' = [pag EXCEPT !.acc = @ \o outcome.runs]
            /\ op' = [name |-> "getMoreRuns", args |-> [continuationToken |-> outcome.nextLink]]
            /\ Take(getMoreRuns(outcome.nextLink), << >>)
            /\ replies' = << >>
       ELSE /\ pag' = [pag EXCEPT !.acc = @ \o outcome.runs, !.state = "done"]
            /\ UNCHANGED <<pc, op, calls, replies, outcome>>
    /\ UNCHANGED <<ctor, options, _isDev, ctorError, outputs>>

\* The caller takes the invocation's outcome; the service is idle again.
Finish ==
    /\ pc \in {"returned", "threw"}
    /\ pag.state # "running"
    /\ pc' = "idle"
    /\ op' = None
    /\ calls' = << >>
    /\ replies' = << >>
    /\ outcome' = None
    /\ outputs' = EmptyObj
    /\ pag' = NoPag
    /\ UNCHANGED <<ctor, options, _isDev, ctorError>>

Next ==
    \/ \E opts \in OptionsSet : New(opts)
    \/ \E contentLink \in ContentLinks : GetContent(contentLink)
    \/ \E continuationToken \in NextLinks \ {Undefined} : GetMoreRuns(continuationToken)
    \/ GetRun("r1")
    \/ GetRuns
    \/ \E action \in Actions, status \in Statuses : GetScopeRepetitions(action, status)
    \/ \E action \in Actions : GetRepetition(action, "000000")
    \/ \E callbackInfo \in CallbackInfos : RunTrigger(callbackInfo)
    \/ \E actionMetadata \in ActionMetadatas, nodeId \in NodeIds :
            GetActionLinks(actionMetadata, nodeId)
    \/ \E response \in Payloads, isInput \in BOOLEAN : ParseActionLink(response, isInput)
    \/ \E method \in Methods, opts \in RequestOptions : GetHttpRequestByMethod(method, opts)
    \/ Awaiting /\ \E body \in Bodies : TransportResolve(body)
    \/ \E e \in TransportErrors : TransportReject(e)
    \/ Paginate
    \/ NextPage
    \/ Finish

Spec == Init /\ [][Next]_vars

----------------------------------------------------------------------------
(* The claims *)

\* An invocation of `name` is under way or has just ended.
InOp(name) == pc # "idle" /\ op.name = name

RECURSIVE ConcatRuns(_)
ConcatRuns(served) ==
    IF served = << >> THEN << >> ELSE Head(served).body.value \o ConcatRuns(Tail(served))

\* C1: a caller that pages with getRuns and then getMoreRuns(nextLink) requests
\* each further page at the previous page's nextLink, unmodified, goes on only
\* after a page that carries a nextLink, stops at a page that carries none,
\* and has then accumulated the served pages' runs in the order served.
C1_Pagination ==
    pag.state # "none" =>
        /\ \A i \in 1..(Len(pag.served) - 1) :
              /\ Truthy(pag.served[i].body.nextLink)
              /\ pag.served[i + 1].uri = pag.served[i].body.nextLink
        /\ Awaiting /\ Len(pag.served) > 0 =>
              /\ calls[Len(calls)].options.uri = pag.served[Len(pag.served)].body.nextLink
              /\ pag.acc = ConcatRuns(pag.served)
        /\ pag.state = "running" /\ pc = "returned" =>
              /\ outcome.nextLink = pag.served[Len(pag.served)].body.nextLink
              /\ pag.acc \o outcome.runs = ConcatRuns(pag.served)
        /\ pag.state = "done" =>
              /\ ~Truthy(pag.served[Len(pag.served)].body.nextLink)
              /\ pag.acc = ConcatRuns(pag.served)

C1_Witness ==
    /\ pag.state = "done"
    /\ Len(pag.served) = 3
    /\ pag.served[1].body.value = <<"r2", "r1">>
    /\ pag.served[2].body.value = <<"r1">>
    /\ pag.acc = <<"r2", "r1", "r1">>

\* C2: construction throws exactly when baseUrl or apiVersion is empty or
\* missing, whatever isDev is; after a successful construction _isDev is
\* isDev, false when isDev is absent.
C2_Construction ==
    ctor # "none" =>
        /\ ctor = "threw" <=>
              \/ options.baseUrl \in {Undefined, Str("")}
              \/ options.apiVersion \in {Undefined, Str("")}
        /\ ctor = "threw" => ctorError.name = "ArgumentException" /\ pc = "idle"
        /\ ctor = "ok" => _isDev = (options.isDev = Bool(TRUE))

C2_Witness ==
    /\ ctor = "ok"
    /\ options.isDev = Undefined
    /\ _isDev = FALSE
    /\ options.accessToken = Undefined

\* C3: in dev mode getScopeRepetitions returns { value: [] } and issues no
\* transport call, whatever nodeId, runId and status are.
C3_ScopeRepetitionsInDev ==
    InOp("getScopeRepetitions") /\ _isDev =>
        /\ pc = "returned"
        /\ outcome = Obj([value |-> << >>])
        /\ calls = << >>

C3_Witness ==
    /\ InOp("getScopeRepetitions")
    /\ _isDev
    /\ op.args.status = Str("Succeeded")
    /\ op.args.action.runId = Undefined
    /\ pc = "returned"

\* C4: in dev mode getActionLinks issues no transport call, whatever links the
\* metadata carries; it returns the fixture payloads of the node id (or {}),
\* each passed through parseActionLink.
C4_ActionLinksInDev ==
    InOp("getActionLinks") /\ _isDev =>
        /\ pc = "returned"
        /\ calls = << >>
        /\ outcome =
              Obj([inputs |->
                       parseActionLink(
                           IF op.args.nodeId \in DOMAIN inputsResponse
                           THEN inputsResponse[op.args.nodeId] ELSE EmptyObj, TRUE),
                   outputs |->
                       parseActionLink(
                           IF op.args.nodeId \in DOMAIN outputsResponse
                           THEN outputsResponse[op.args.nodeId] ELSE EmptyObj, FALSE)])

C4_Witness ==
    /\ InOp("getActionLinks")
    /\ _isDev
    /\ op.args.actionMetadata =
          Obj([inputsLink |-> Obj([uri |-> Str("https://blob/inputs")]),
               outputsLink |-> Obj([uri |-> Str("https://blob/outputs")])])
    /\ op.args.nodeId = "Compose"
    /\ pc = "returned"

\* A callback descriptor with a callback URL or a relative path.
Resolvable(callbackInfo) ==
    \/ Truthy(Get(callbackInfo, "value"))
    \/ Truthy(Get(callbackInfo, "relativePath"))

\* C5: runTrigger with a descriptor from which no URI can be resolved throws
\* an error and issues no transport call.
C5_RunTriggerWithoutUri ==
    InOp("runTrigger") /\ ~Resolvable(op.args.callbackInfo) =>
        /\ pc = "threw"
        /\ outcome.name = "Error"
        /\ calls = << >>

C5_Witness ==
    /\ InOp("runTrigger")
    /\ op.args.callbackInfo = [value |-> Undefined]
    /\ pc = "threw"

\* `method` is `word` (lower case) in some casing.
IsCasingOf(method, word) ==
    /\ Len(method) = Len(word)
    /\ \A i \in 1..Len(word) :
          \/ method[i] = word[i]
          \/ \E j \in 1..Len(LowerCase) : LowerCase[j] = word[i] /\ UpperCase[j] = method[i]

\* The verb the claim gives a method name, "none" when it gives none.
VerbOf(method) ==
    CASE IsCasingOf(method, <<"g", "e", "t">>) -> "get"
      [] IsCasingOf(method, <<"p", "o", "s", "t">>) -> "post"
      [] IsCasingOf(method, <<"p", "u", "t">>) -> "put"
      [] OTHER -> "none"

\* C6: getHttpRequestByMethod issues exactly one transport call, of the verb
\* its method names in any casing (get, post, put) and with the options it
\* was given; for every other method it throws an UnsupportedException and
\* issues no transport call.
C6_DispatchByMethod ==
    InOp("getHttpRequestByMethod") =>
        IF VerbOf(op.args.method) # "none"
        THEN /\ calls = <<[verb |-> VerbOf(op.args.method), options |-> op.args.options]>>
             /\ pc = "threw" => replies # << >> /\ ~replies[1].ok
        ELSE /\ pc = "threw"
             /\ outcome.name = "UnsupportedException"
             /\ calls = << >>

C6_Witness ==
    /\ InOp("getHttpRequestByMethod")
    /\ op.args.method = <<"P", "o", "S", "t">>
    /\ pc = "returned"
    /\ calls[1].verb = "post"

\* C7 as stated: getHttpRequestByMethod with "DELETE" throws an
\* UnsupportedException whose message names the method as "delete".
C7_AsStated ==
    InOp("getHttpRequestByMethod") /\ op.args.method = <<"D", "E", "L", "E", "T", "E">> =>
        /\ pc = "threw"
        /\ outcome.name = "UnsupportedException"
        /\ outcome.message = Str("Unsupported call connector method - 'delete'")

\* C7 as amended: getHttpRequestByMethod with "DELETE" throws an
\* UnsupportedException whose message names the method as it was passed,
\* "DELETE"; only the dispatch lower-cases it.
C7_NamesMethodAsPassed ==
    InOp("getHttpRequestByMethod") /\ op.args.method = <<"D", "E", "L", "E", "T", "E">> =>
        /\ pc = "threw"
        /\ outcome.name = "UnsupportedException"
        /\ outcome.message = Str("Unsupported call connector method - 'DELETE'")
        /\ calls = << >>

C7_Witness ==
    /\ InOp("getHttpRequestByMethod")
    /\ op.args.method = <<"D", "E", "L", "E", "T", "E">>
    /\ pc = "threw"
    /\ outcome.message.v = "Unsupported call connector method - 'DELETE'"

\* { [key]: { displayName: key, value } }
OneEntry(key, value) == Obj(key :> Obj([displayName |-> Str(key), value |-> value]))

\* The result is the payload's mapping, each key k to { displayName: k, value: payload[k] }.
SameKeysWrapped(result, payload) ==
    /\ result.t = "object"
    /\ DOMAIN result.v = DOMAIN payload.v
    /\ \A k \in DOMAIN payload.v :
          result.v[k] = Obj([displayName |-> Str(k), value |-> payload.v[k]])

\* C8 as stated: parseActionLink returns null and undefined unchanged, wraps
\* every string payload s as one entry keyed "Inputs" or "Outputs" by isInput,
\* and maps every key k of an object payload to { displayName: k, value }.
C8_AsStated ==
    InOp("parseActionLink") =>
        LET response == op.args.response
            key == IF op.args.isInput THEN "Inputs" ELSE "Outputs"
        IN /\ pc = "returned"
           /\ response \in {Null, Undefined} => outcome = response
           /\ response.t = "string" => outcome = OneEntry(key, response)
           /\ response.t = "object" => SameKeysWrapped(outcome, response)

\* C8 as amended: parseActionLink returns every falsy response unchanged: null,
\* undefined and also the empty string; it wraps every non-empty string
\* payload s as one entry keyed "Inputs" or "Outputs" by isInput, and maps
\* every key k of an object payload to { displayName: k, value }, whatever
\* isInput is; it issues no transport call.
C8_ParseActionLink ==
    InOp("parseActionLink") =>
        LET response == op.args.response
            key == IF op.args.isInput THEN "Inputs" ELSE "Outputs"
        IN /\ pc = "returned"
           /\ calls = << >>
           /\ response \in {Null, Undefined, Str("")} => outcome = response
           /\ response.t = "string" /\ response.v # "" => outcome = OneEntry(key, response)
           /\ response.t = "object" => SameKeysWrapped(outcome, response)

C8_Witness ==
    /\ InOp("parseActionLink")
    /\ op.args.response = Str("")
    /\ ~op.args.isInput
    /\ outcome = Str("")

\* The read operations whose catch block rethrows a plain error.
ReadOperations ==
    {"getContent", "getRun", "getRuns", "getMoreRuns", "getScopeRepetitions", "getRepetition"}

C10_NoRetries ==
    pc # "idle" =>
        /\ \A i \in 1..Len(replies) :
              ~replies[i].ok => Len(calls) = i /\ pc = "threw" /\ "message" \in DOMAIN outcome
        /\ Len(calls) <= (IF op.name = "getActionLinks" THEN 2 ELSE 1)
        /\ Len(replies) <= Len(calls)

C10_Witness ==
    /\ InOp("getActionLinks")
    /\ HasUri(Link(op.args.actionMetadata, "inputsLink"))
    /\ Len(calls) = 1
    /\ Len(replies) = 1
    /\ ~replies[1].ok
    /\ pc = "threw"

\* The content fetch getContent makes for a link.
ContentFetch(link) ==
    [verb |-> "get",
     options |-> [uri |-> link.v.uri, noAuth |-> TRUE,
                  headers |-> Obj("Access-Control-Allow-Origin" :> Str("*"))]]

\* The fetches the metadata's links call for: outputs, then inputs.
FetchesDue(actionMetadata) ==
    (IF HasUri(Link(actionMetadata, "outputsLink"))
     THEN <<ContentFetch(Link(actionMetadata, "outputsLink"))>> ELSE << >>)
        \o (IF HasUri(Link(actionMetadata, "inputsLink"))
            THEN <<ContentFetch(Link(actionMetadata, "inputsLink"))>> ELSE << >>)

\* C11: outside dev mode getActionLinks fetches the outputs and then the
\* inputs, one at a time: a GET for outputsLink.uri only if it is present, a
\* GET for inputsLink.uri only if it is present, the inputs GET only once the
\* outputs GET has resolved; a link without a uri causes no call and leaves
\* its side of the result the empty mapping.
C11_OutputsThenInputs ==
    InOp("getActionLinks") /\ ~_isDev =>
        LET due == FetchesDue(op.args.actionMetadata)
            hasOutputs == HasUri(Link(op.args.actionMetadata, "outputsLink"))
            hasInputs == HasUri(Link(op.args.actionMetadata, "inputsLink"))
        IN /\ Len(calls) <= Len(due)
           /\ \A i \in 1..Len(calls) : calls[i] = due[i]
           /\ Len(calls) <= Len(replies) + 1
           /\ \A i \in 2..Len(calls) : replies[i - 1].ok
           /\ pc = "returned" =>
                 /\ Len(calls) = Len(due)
                 /\ ~hasOutputs => outcome.v.outputs = EmptyObj
                 /\ ~hasInputs => outcome.v.inputs = EmptyObj
                 /\ hasOutputs => outcome.v.outputs = parseActionLink(replies[1].body, FALSE)
                 /\ hasInputs =>
                       outcome.v.inputs = parseActionLink(replies[Len(replies)].body, TRUE)

C11_Witness ==
    /\ InOp("getActionLinks")
    /\ ~_isDev
    /\ op.args.actionMetadata =
          Obj([inputsLink |-> Obj([uri |-> Str("https://blob/inputs")]),
               outputsLink |-> Obj([uri |-> Str("https://blob/outputs")])])
    /\ Len(calls) = 2
    /\ calls[1].options.uri = Str("https://blob/outputs")
    /\ calls[2].options.uri = Str("https://blob/inputs")
    /\ replies[1] = [ok |-> TRUE, body |-> Str("hello")]
    /\ pc = "returned"

\* C12 as stated: runTrigger with a descriptor that has a resolvable URI
\* issues exactly one transport call to that URI, with the descriptor's method
\* when it carries the relative-path form and with POST otherwise, and
\* completes without error when that call succeeds.
C12_AsStated ==
    InOp("runTrigger") /\ Resolvable(op.args.callbackInfo) =>
        LET callbackInfo == op.args.callbackInfo
            method == IF Truthy(Get(callbackInfo, "relativePath"))
                      THEN callbackInfo.method ELSE <<"P", "O", "S", "T">>
        IN /\ Len(calls) = 1
           /\ calls[1].verb = VerbOf(method)
           /\ Truthy(calls[1].options.uri)
           /\ Truthy(Get(callbackInfo, "value")) =>
                 calls[1].options.uri = callbackInfo.value
           /\ replies # << >> /\ replies[1].ok => pc = "returned"

\* C13: outside dev mode, when outputsLink has a uri and the outputs fetch
\* fails, getActionLinks throws getContent's error (a plain Error with the
\* transport error's message), never issues the inputs fetch, and returns no
\* { inputs, outputs } result.
C13_OutputsFailureFailsCall ==
    /\ InOp("getActionLinks")
    /\ ~_isDev
    /\ HasUri(Link(op.args.actionMetadata, "outputsLink"))
    /\ replies # << >>
    /\ ~replies[1].ok
    =>
        /\ pc = "threw"
        /\ outcome = [name |-> "Error", message |-> replies[1].error.message]
        /\ calls = <<ContentFetch(Link(op.args.actionMetadata, "outputsLink"))>>
        /\ Len(replies) = 1

C13_Witness ==
    /\ InOp("getActionLinks")
    /\ ~_isDev
    /\ op.args.actionMetadata =
          Obj([inputsLink |-> Obj([uri |-> Str("https://blob/inputs")]),
               outputsLink |-> Obj([uri |-> Str("https://blob/outputs")])])
    /\ replies = <<[ok |-> FALSE,
                    error |-> [name |-> "HttpError", message |-> Str("Network Error")]]>>
    /\ outcome = [name |-> "Error", message |-> Str("Network Error")]

====
